---- MODULE Spec2Model ----
(***************************************************************************)
(* Model of simple_cycles_ig (src/busca_ciclos_no_grafo.py): the           *)
(* nonrecursive generator version of Johnson's algorithm over an igraph    *)
(* graph, with the length / node-type limit, together with a consumer that *)
(* pulls from the generator, may abandon it after a cycle, and may call it  *)
(* a second time once it is drained.                                       *)
(***************************************************************************)
EXTENDS Integers, Sequences, FiniteSets, TLC

\* ------------------------------------------------------------------ bounds
\* Number of vertices of the enumerated input graphs.
MaxV == 4
\* Largest number of edges of an enumerated input graph, self-loops allowed.
MaxEdges == 4
\* Largest limit_len passed.
MaxLimit == 2
\* Number of edges of the dense input graphs.
DenseEdges == 7
\* Largest number of rows of an edge file.
MaxRows == 3
\* Largest number of vertices of a graph tried in every numbering.
MaxRenumbered == 3

\* ------------------------------------------------------- program constants
MIN_SCC_SIZE == 2

\* ----------------------------------------------------------------- helpers
RECURSIVE RepeatSeq(_, _)
RepeatSeq(x, k) == IF k <= 0 THEN <<>> ELSE <<x>> \o RepeatSeq(x, k - 1)

SeqToSet(s) == {s[k] : k \in 1..Len(s)}

Last(s) == s[Len(s)]

Front(s) == SubSeq(s, 1, Len(s) - 1)

SetMin(S) == CHOOSE x \in S : \A y \in S : x <= y

\* ------------------------------------------------------------ igraph.Graph
\* A graph value: directed flag, vs = the vertex attribute records in storage
\* order (the vertex of index i is vs[i + 1]), es[<<a, b>>] = the number of
\* edges from index a to index b.
VCount(g) == Len(g.vs)

Indices(g) == 0..(VCount(g) - 1)

\* Graph.neighbors(v, mode='out'): the targets of the out-edges of index i in
\* ascending index order, one entry per edge (a parallel edge repeats its
\* target, a self-loop lists the vertex itself).
RECURSIVE NeighborsFrom(_, _, _)
NeighborsFrom(g, i, t) ==
  IF t >= VCount(g) THEN <<>>
  ELSE RepeatSeq(t, g.es[<<i, t>>]) \o NeighborsFrom(g, i, t + 1)

neighbors(g, i) == NeighborsFrom(g, i, 0)

\* subG.vs.find(id=node_id): whether the lookup succeeds, and the index found.
HasId(g, id) == \E i \in Indices(g) : g.vs[i + 1].id = id

FindIndex(g, id) == CHOOSE i \in Indices(g) : g.vs[i + 1].id = id

\* The indices of g kept when the indices in drop are deleted, ascending.
RECURSIVE KeepFrom(_, _, _)
KeepFrom(g, drop, t) ==
  IF t >= VCount(g) THEN <<>>
  ELSE (IF t \in drop THEN <<>> ELSE <<t>>) \o KeepFrom(g, drop, t + 1)

\* Graph.delete_vertices: the vertices and their incident edges go, the
\* storage compacts (indices shift down), the attributes stay with their vertex.
delete_vertices(g, drop) ==
  LET keep == KeepFrom(g, drop, 0)
      m == Len(keep)
  IN [directed |-> g.directed,
      vs |-> [k \in 1..m |-> g.vs[keep[k] + 1]],
      es |-> [p \in (0..(m - 1)) \X (0..(m - 1)) |->
                g.es[<<keep[p[1] + 1], keep[p[2] + 1]>>]]]

\* Graph.subgraph: the induced subgraph, vertices in ascending index order.
subgraph(g, idxs) == delete_vertices(g, Indices(g) \ idxs)

\* Graph.components(mode='STRONG'): two depth-first passes. The first pass
\* records the vertices in finishing order; the second takes them from the
\* back and collects, over the in-edges, the unmarked vertices that reach it.
RECURSIVE DfsVisit(_, _, _)
RECURSIVE DfsNbrs(_, _, _)
DfsVisit(g, v, st) ==
  LET st1 == DfsNbrs(g, neighbors(g, v), [st EXCEPT !.seen = @ \cup {v}])
  IN [st1 EXCEPT !.out = Append(@, v)]

DfsNbrs(g, nbrs, st) ==
  IF nbrs = <<>> THEN st
  ELSE LET w == Head(nbrs)
       IN DfsNbrs(g, Tail(nbrs), IF w \in st.seen THEN st ELSE DfsVisit(g, w, st))

RECURSIVE FirstPass(_, _, _)
FirstPass(g, i, st) ==
  IF i >= VCount(g) THEN st
  ELSE FirstPass(g, i + 1, IF i \in st.seen THEN st ELSE DfsVisit(g, i, st))

RECURSIVE BackClosure(_, _, _)
BackClosure(g, cluster, marked) ==
  LET more == {w \in Indices(g) \ (marked \cup cluster) :
                 \E v \in cluster : g.es[<<w, v>>] > 0}
  IN IF more = {} THEN cluster ELSE BackClosure(g, cluster \cup more, marked)

RECURSIVE SecondPass(_, _, _, _)
SecondPass(g, out, marked, clusters) ==
  IF out = <<>> THEN clusters
  ELSE LET grandfather == Last(out)
       IN IF grandfather \in marked
          THEN SecondPass(g, Front(out), marked, clusters)
          ELSE LET c == BackClosure(g, {grandfather}, marked)
               IN SecondPass(g, Front(out), marked \cup c, Append(clusters, c))

components(g) ==
  SecondPass(g, FirstPass(g, 0, [seen |-> {}, out |-> <<>>]).out, {}, <<>>)

\* ---------------------------------------------------------- Python values
\* A CPython set: its hash table (per slot a key, Unused or Dummy), fill = the
\* active and dummy entries, used = the active entries, finger = the slot where
\* set.pop() resumes. The keys are non-negative ints, whose hash is the int.
PySet_MINSIZE == 8

LINEAR_PROBES == 9

PERTURB_SHIFT == 5

Unused == 0 - 1

Dummy == 0 - 2

NewSet ==
  [table |-> [k \in 1..PySet_MINSIZE |-> Unused], fill |-> 0, used |-> 0, finger |-> 0]

Keys(so) == {so.table[k] : k \in {j \in 1..Len(so.table) : so.table[j] >= 0}}

Probes(i, mask) == IF i + LINEAR_PROBES <= mask THEN LINEAR_PROBES ELSE 0

NextSlot(i, perturb, mask) == (i * 5 + 1 + perturb) % (mask + 1)

\* set_insert_clean: the key goes to the first unused slot of its probe
\* sequence (the table holds no dummy and not the key).
RECURSIVE InsertCleanScan(_, _, _)
InsertCleanScan(table, e, probes) ==
  IF table[e + 1] = Unused THEN e
  ELSE IF probes = 0 THEN 0 - 1
  ELSE InsertCleanScan(table, e + 1, probes - 1)

RECURSIVE InsertCleanFrom(_, _, _, _)
InsertCleanFrom(table, key, i, perturb) ==
  LET mask == Len(table) - 1
      e == InsertCleanScan(table, i, Probes(i, mask))
      p == perturb \div (2 ^ PERTURB_SHIFT)
  IN IF e >= 0 THEN [table EXCEPT ![e + 1] = key]
     ELSE InsertCleanFrom(table, key, NextSlot(i, p, mask), p)

set_insert_clean(table, key) == InsertCleanFrom(table, key, key % Len(table), key)

RECURSIVE ReinsertFrom(_, _, _)
ReinsertFrom(old, k, new) ==
  IF k > Len(old) THEN new
  ELSE ReinsertFrom(old, k + 1,
                    IF old[k] >= 0 THEN set_insert_clean(new, old[k]) ELSE new)

\* set_table_resize: a table of the first power of two above minused, the
\* active entries inserted again in slot order, the dummies dropped.
RECURSIVE NewSize(_, _)
NewSize(size, minused) == IF size <= minused THEN NewSize(2 * size, minused) ELSE size

set_table_resize(so, minused) ==
  LET newsize == NewSize(PySet_MINSIZE, minused)
  IN IF newsize = PySet_MINSIZE /\ Len(so.table) = PySet_MINSIZE /\ so.fill = so.used
     THEN so
     ELSE [so EXCEPT !.table = ReinsertFrom(so.table, 1, [k \in 1..newsize |-> Unused]),
                     !.fill = so.used]

\* set_add_entry: the probe sequence of the key is followed to an unused slot;
\* the key takes the last dummy slot passed on the way, if any, else that
\* unused slot, and the table is resized once fill * 5 >= mask * 3.
RECURSIVE AddScan(_, _, _, _, _)
AddScan(table, key, e, probes, freeslot) ==
  IF table[e + 1] = Unused THEN [kind |-> "unused", slot |-> e, freeslot |-> freeslot]
  ELSE IF table[e + 1] = key THEN [kind |-> "active", slot |-> e, freeslot |-> freeslot]
  ELSE LET f == IF table[e + 1] = Dummy THEN e ELSE freeslot
       IN IF probes = 0 THEN [kind |-> "none", slot |-> e, freeslot |-> f]
          ELSE AddScan(table, key, e + 1, probes - 1, f)

RECURSIVE AddFrom(_, _, _, _, _)
AddFrom(so, key, i, perturb, freeslot) ==
  LET mask == Len(so.table) - 1
      r == AddScan(so.table, key, i, Probes(i, mask), freeslot)
      p == perturb \div (2 ^ PERTURB_SHIFT)
  IN IF r.kind = "active" THEN so
     ELSE IF r.kind = "none" THEN AddFrom(so, key, NextSlot(i, p, mask), p, r.freeslot)
     ELSE IF r.freeslot >= 0
     THEN [so EXCEPT !.table[r.freeslot + 1] = key, !.used = @ + 1]
     ELSE LET so1 == [so EXCEPT !.table[r.slot + 1] = key, !.fill = @ + 1, !.used = @ + 1]
          IN IF so1.fill * 5 < mask * 3 THEN so1
             ELSE set_table_resize(so1, IF so1.used > 50000 THEN so1.used * 2
                                        ELSE so1.used * 4)

set_add_entry(so, key) == AddFrom(so, key, key % Len(so.table), key, 0 - 1)

\* set_merge (set.update(other), set(other)): one resize ahead when the keys
\* of other would overfill the table; into an empty table the entries of other
\* are copied slot by slot (same size, no dummy) or inserted clean, else they
\* are added one by one, in the slot order of other.
RECURSIVE MergeAddFrom(_, _, _)
MergeAddFrom(so, other, k) ==
  IF k > Len(other) THEN so
  ELSE MergeAddFrom(IF other[k] >= 0 THEN set_add_entry(so, other[k]) ELSE so, other, k + 1)

set_merge(so, other) ==
  IF other.used = 0 THEN so
  ELSE LET so1 == IF (so.fill + other.used) * 5 >= (Len(so.table) - 1) * 3
                  THEN set_table_resize(so, (so.used + other.used) * 2)
                  ELSE so
       IN IF so1.fill = 0 /\ Len(so1.table) = Len(other.table) /\ other.fill = other.used
          THEN [so1 EXCEPT !.table = other.table, !.fill = other.fill,
                           !.used = other.used]
          ELSE IF so1.fill = 0
          THEN [so1 EXCEPT !.table = ReinsertFrom(other.table, 1, so1.table),
                           !.fill = other.used, !.used = other.used]
          ELSE MergeAddFrom(so1, other.table, 1)

\* set.pop(): the first active entry from the finger on, wrapping around; the
\* slot becomes a dummy and the finger moves past it.
RECURSIVE PopScan(_, _)
PopScan(table, e) ==
  IF table[e + 1] >= 0 THEN e
  ELSE PopScan(table, IF e + 1 > Len(table) - 1 THEN 0 ELSE e + 1)

set_pop(so) ==
  LET e == PopScan(so.table, so.finger % Len(so.table))
  IN [key |-> so.table[e + 1],
      so |-> [so EXCEPT !.table[e + 1] = Dummy, !.used = @ - 1, !.finger = e + 1]]

\* The set built from a list: one add per item, in list order.
RECURSIVE SetFromSeq(_, _)
SetFromSeq(so, s) ==
  IF s = <<>> THEN so ELSE SetFromSeq(set_add_entry(so, Head(s)), Tail(s))

RECURSIVE Ascending(_)
Ascending(S) == IF S = {} THEN <<>> ELSE <<SetMin(S)>> \o Ascending(S \ {SetMin(S)})

\* scc.pop() on line 123. The set is set(frozenset(ids)) of line 80, the ids
\* listed by line 78 in the storage order of the component, which is the
\* ascending order of the ids.
SetPop(S) == set_pop(set_merge(NewSet, SetFromSeq(NewSet, Ascending(S)))).key

\* A string is the sequence of its characters. The node types of the inputs,
\* and None, which is no string.
PF == <<"P", "F">>

PJ == <<"P", "J">>

None == <<"None">>

\* name.split('-')[0]: the characters before the first '-', all of them when
\* there is none.
RECURSIVE SplitHead(_)
SplitHead(name) ==
  IF name = <<>> \/ Head(name) = "-" THEN <<>>
  ELSE <<Head(name)>> \o SplitHead(Tail(name))

\* int(limit_len) of a command-line string: surrounding whitespace is
\* stripped; what is left is an optional sign and decimal digits, with single
\* underscores allowed between digits, and no more digits than the limit of
\* the runtime; anything else is a ValueError. The whitespace is the six
\* ASCII characters and, outside ASCII, the next-line and no-break-space
\* characters. (The spaces and decimal digits above U+00FF that int() also
\* takes have no spelling in a string of this module.)
VT == ""

NEL == ""

NBSP == " "

Whitespace == {" ", "\t", "\n", "\r", "\f", VT, NEL, NBSP}

\* The default of sys.get_int_max_str_digits(): the longest run of digits
\* int() converts, underscores not counted, leading zeros counted.
MAX_STR_DIGITS == 4300

DigitVal(c) ==
  CASE c = "0" -> 0 [] c = "1" -> 1 [] c = "2" -> 2 [] c = "3" -> 3
    [] c = "4" -> 4 [] c = "5" -> 5 [] c = "6" -> 6 [] c = "7" -> 7
    [] c = "8" -> 8 [] c = "9" -> 9 [] OTHER -> -1

RECURSIVE StripLeft(_)
StripLeft(s) == IF s # <<>> /\ Head(s) \in Whitespace THEN StripLeft(Tail(s)) ELSE s

RECURSIVE StripRight(_)
StripRight(s) == IF s # <<>> /\ Last(s) \in Whitespace THEN StripRight(Front(s)) ELSE s

Strip(s) == StripRight(StripLeft(s))

RECURSIVE DigitsVal(_, _)
DigitsVal(s, acc) ==
  IF s = <<>> THEN acc
  ELSE IF Head(s) = "_" THEN DigitsVal(Tail(s), acc)
  ELSE DigitsVal(Tail(s), 10 * acc + DigitVal(Head(s)))

IsDigits(s) ==
  /\ Len(s) >= 1
  /\ DigitVal(s[1]) >= 0
  /\ DigitVal(s[Len(s)]) >= 0
  /\ {k \in 1..Len(s) : DigitVal(s[k]) < 0 /\ s[k] # "_"} = {}
  /\ {k \in 1..(Len(s) - 1) : s[k] = "_" /\ s[k + 1] = "_"} = {}
  /\ Cardinality({k \in 1..Len(s) : s[k] # "_"}) <= MAX_STR_DIGITS

IntOk(s) ==
  LET t == Strip(s)
  IN IF Len(t) >= 1 /\ t[1] \in {"-", "+"} THEN IsDigits(Tail(t)) ELSE IsDigits(t)

IntOf(s) ==
  LET t == Strip(s)
  IN IF t[1] = "-" THEN 0 - DigitsVal(Tail(t), 0)
     ELSE IF t[1] = "+" THEN DigitsVal(Tail(t), 0)
     ELSE DigitsVal(t, 0)

\* ------------------------------------------- helpers of simple_cycles_ig
\* _get_neighbors: the 'id' of every out-neighbor of the vertex whose 'id' is
\* node_id, looked up in the whole working graph subG.
get_neighbors(g, node_id) ==
  LET ns == neighbors(g, FindIndex(g, node_id))
  IN [k \in 1..Len(ns) |-> g.vs[ns[k] + 1].id]

\* _strongly_connected_components called as on line 115: the size threshold is
\* not applied, every component is returned.
strongly_connected_components_any_size(g, min_scc_size) ==
  LET cs == components(g)
  IN [k \in 1..Len(cs) |-> {g.vs[i + 1].id : i \in cs[k]}]

\* _strongly_connected_components: the components with at least min_scc_size
\* vertices, in the order of Graph.components, each as the set of its 'id's.
strongly_connected_components(g, min_scc_size) ==
  LET cs == SelectSeq(components(g), LAMBDA c : Cardinality(c) >= min_scc_size)
  IN [k \in 1..Len(cs) |-> {g.vs[i + 1].id : i \in cs[k]}]

\* The number of vertices of path whose 'tipo' is limit_node_type.
RECURSIVE TypeCount(_, _, _)
TypeCount(g, path, t) ==
  IF path = <<>> THEN 0
  ELSE (IF g.vs[FindIndex(g, Head(path)) + 1].tipo = t THEN 1 ELSE 0)
       + TypeCount(g, Tail(path), t)

\* is_path_in_limit with the type test inverted: the vertices counted are those
\* of the other types.
RECURSIVE OtherTypeCount(_, _, _)
OtherTypeCount(g, path, t) ==
  IF path = <<>> THEN 0
  ELSE (IF g.vs[FindIndex(g, Head(path)) + 1].tipo # t THEN 1 ELSE 0)
       + OtherTypeCount(g, Tail(path), t)

is_path_in_limit_other_type(g, path, limit_len, limit_node_type) ==
  IF limit_len < 0 THEN TRUE
  ELSE IF limit_node_type = None THEN Len(path) <= limit_len
  ELSE OtherTypeCount(g, path, limit_node_type) <= limit_len

\* is_path_in_limit.
is_path_in_limit(g, path, limit_len, limit_node_type) ==
  IF limit_len < 0 THEN TRUE
  ELSE IF limit_node_type = None THEN Len(path) <= limit_len
  ELSE TypeCount(g, path, limit_node_type) <= limit_len

\* _unblock: the worklist loop over the set `stack`; returns the new blocked
\* set and B map.
RECURSIVE UnblockLoop(_, _, _)
UnblockLoop(stack, blocked, B) ==
  IF stack.used = 0 THEN [blocked |-> blocked, B |-> B]
  ELSE LET popped == set_pop(stack)
           node == popped.key
       IN IF node \in blocked
          THEN UnblockLoop(set_merge(popped.so, B[node]), blocked \ {node},
                           [B EXCEPT ![node] = NewSet])
          ELSE UnblockLoop(popped.so, blocked, B)

\* _unblock with its loop body left out: nothing is ever unblocked.
unblock_nothing(thisnode, blocked, B) == [blocked |-> blocked, B |-> B]

unblock(thisnode, blocked, B) ==
  UnblockLoop(set_add_entry(NewSet, thisnode), blocked, B)

\* The else branch of the backtrack: thisnode is registered in B[nbr] for
\* each of its out-neighbors.
RegisterB(B, nbrs, thisnode) ==
  [n \in DOMAIN B |->
     IF n \in SeqToSet(nbrs) THEN set_add_entry(B[n], thisnode) ELSE B[n]]

\* ------------------------------------------------------------------ state
VARIABLES
  heap,             \* the graph objects: "G" the caller's, "copy" the one G.copy() makes
  limit_arg,        \* the limit_len argument as passed (a command-line string)
  limit_node_type,  \* the limit_node_type argument (a string, or None)
  pc,               \* where the generator stands
  subG,             \* the object the name subG refers to ("none" before line 111)
  limit_len,        \* limit_len after int()
  sccs,             \* the worklist (a list of sets)
  i,                \* the iteration counter of the outer loop
  scc,              \* the component popped, less its start node
  startnode, path, blocked, closed, B, stack,
  emitted,          \* what the generator has yielded in this run, in order
  anchors,          \* the values startnode has taken in this run, in order
  run,              \* 1 in the consumer's first call, 2 in its second
  variant,          \* what the consumer did before calling again
  perm,             \* how the second call's graph numbers the vertices of the first
  firstRun          \* what the first call yielded

vars == <<heap, limit_arg, limit_node_type, pc, subG, limit_len, sccs, i, scc,
          startnode, path, blocked, closed, B, stack, emitted, anchors, run,
          variant, perm, firstRun>>

locals == <<subG, limit_len, sccs, i, scc, startnode, path, blocked, closed, B, stack>>

inputs == <<limit_arg, limit_node_type>>

harness == <<run, variant, perm, firstRun>>

Ids == 0..(MaxV - 1)

NoGraph == [directed |-> TRUE, vs |-> <<>>, es |-> <<>>]

SubG == heap[subG]

\* ------------------------------------------------------------ the inputs
\* The vertex names of the rows in the order Graph.DictList meets them: row by
\* row, the source before the target, every name once.
RECURSIVE NamesOf(_, _)
NamesOf(rows, seen) ==
  IF rows = <<>> THEN seen
  ELSE LET r == Head(rows)
           s1 == IF r.source \in SeqToSet(seen) THEN seen ELSE Append(seen, r.source)
           s2 == IF r.target \in SeqToSet(s1) THEN s1 ELSE Append(s1, r.target)
       IN NamesOf(Tail(rows), s2)

IndexOf(names, name) == (CHOOSE k \in 1..Len(names) : names[k] = name) - 1

\* Graph.DictList(vertices=None, edges=rows, directed=True): one vertex per
\* name, numbered in the order the rows name them, with the attribute 'name';
\* one edge per row, a repeated row a parallel edge.
DictList(rows) ==
  LET names == NamesOf(rows, <<>>)
      n == Len(names)
  IN [directed |-> TRUE,
      vs |-> [k \in 1..n |-> [name |-> names[k]]],
      es |-> [p \in (0..(n - 1)) \X (0..(n - 1)) |->
                Cardinality({j \in 1..Len(rows) :
                               /\ IndexOf(names, rows[j].source) = p[1]
                               /\ IndexOf(names, rows[j].target) = p[2]})]]

\* Line 183: graph.vs['tipo'] = [name.split('-')[0] for name in graph.vs['name']].
SetTipo(g) ==
  [g EXCEPT !.vs = [k \in 1..Len(g.vs) |->
                      [name |-> g.vs[k].name, tipo |-> SplitHead(g.vs[k].name)]]]

\* Lines 180-183: the graph search_cycles passes as G.
GraphOfRows(rows) == SetTipo(DictList(rows))

\* The names in the edge file.
Names == {<<"P", "F", "-", "0">>, <<"P", "J", "-", "1">>, <<"P", "F", "-", "2">>}

\* The rows of the edge files: any row any number of times, in any order.
RECURSIVE RowSeqs(_)
RowSeqs(len) ==
  IF len = 0 THEN {<<>>}
  ELSE LET shorter == RowSeqs(len - 1)
       IN shorter \cup {Append(rows, [source |-> a, target |-> b]) :
                          rows \in shorter, a \in Names, b \in Names}

\* The graphs search_cycles builds from them.
FileGraphs == {GraphOfRows(rows) : rows \in RowSeqs(MaxRows)}

\* The argument G of a caller that builds the graph itself, as
\* igraph.Graph(n, edges, directed) with vs['tipo'] set: n vertices, the edges
\* E, 'tipo' "PF" on the vertices of typed and "PJ" on the others.
MkGraphOf(n, E, typed, directed) ==
  [directed |-> directed,
   vs |-> [k \in 1..n |-> [tipo |-> IF (k - 1) \in typed THEN PF ELSE PJ]],
   es |-> [p \in (0..(n - 1)) \X (0..(n - 1)) |-> IF p \in E THEN 1 ELSE 0]]

\* MaxV vertices; the vertices whose index has parity pf are "PF".
MkGraph(E, pf, directed) == MkGraphOf(MaxV, E, {k \in Ids : k % 2 = pf}, directed)

\* The edge sets of the input graphs: self-loops allowed, no parallel edges.
EdgeSets == {E \in SUBSET (Ids \X Ids) : Cardinality(E) <= MaxEdges}

\* The edge sets of the dense input graphs: DenseEdges edges, no self-loop, no
\* parallel edge. Searched under a limit on the "PF" vertices, a path cut by
\* the limit leaves its last vertex registered in B with neighbors that were
\* never blocked.
DenseEdgeSets ==
  {E \in SUBSET {p \in Ids \X Ids : p[1] # p[2]} : Cardinality(E) = DenseEdges}

\* An input of six vertices and nine edges, "PF" on the vertices 1, 3 and 4.
WideGraph ==
  MkGraphOf(6, {<<0, 1>>, <<0, 3>>, <<1, 2>>, <<1, 5>>, <<2, 0>>, <<2, 1>>,
                <<3, 4>>, <<4, 2>>, <<5, 0>>}, {1, 3, 4}, TRUE)

\* The vertex identities of all the input graphs, the widest one included.
AllIds == Ids \cup Indices(WideGraph)

\* B = defaultdict(set): every vertex has a set, empty until something is added.
EmptyB == [n \in AllIds |-> NewSet]

SameNumbering == [k \in AllIds |-> k]

DigitChar(n) ==
  CASE n = 0 -> "0" [] n = 1 -> "1" [] n = 2 -> "2" [] n = 3 -> "3" [] n = 4 -> "4"
    [] n = 5 -> "5" [] n = 6 -> "6" [] n = 7 -> "7" [] n = 8 -> "8" [] OTHER -> "9"

Unlimited == <<"-", "1">>

LimitArgs == {<<DigitChar(n)>> : n \in 0..MaxLimit}

\* A limit written as int() still takes it: padded with whitespace, an
\* underscore between its digits.
PaddedLimitArgs == {<<" ", VT, "0", "_", "2", NBSP, NEL>>}

BadLimitArgs == {<<>>, <<"x">>, <<"2", "x">>, <<"-">>, <<"_", "1">>, <<"-", " ", "1">>}

\* A run of digits one longer than int() converts.
LongLimitArgs == {[k \in 1..(MAX_STR_DIGITS + 1) |-> "1"]}

InitLocals ==
  /\ pc = "start"
  /\ subG = "none"
  /\ limit_len = -1
  /\ sccs = <<>>
  /\ i = 0
  /\ scc = {}
  /\ startnode = -1
  /\ path = <<>>
  /\ blocked = {}
  /\ closed = {}
  /\ B = EmptyB
  /\ stack = <<>>
  /\ emitted = <<>>
  /\ anchors = <<>>

Init ==
  /\ InitLocals
  /\ run = 1
  /\ variant = "first"
  /\ perm = SameNumbering
  /\ firstRun = <<>>
  /\ \/ \E E \in EdgeSets, pf \in {0, 1}, d \in BOOLEAN :
          /\ heap = [G |-> MkGraph(E, pf, d), copy |-> NoGraph]
          /\ \/ /\ d /\ pf = 0
                /\ limit_arg = Unlimited /\ limit_node_type = None
             \/ /\ d /\ pf = 0
                /\ limit_arg \in LimitArgs /\ limit_node_type = None
             \/ /\ d
                /\ limit_arg \in LimitArgs /\ limit_node_type = PF
             \/ /\ d /\ pf = 0
                /\ limit_arg \in PaddedLimitArgs /\ limit_node_type = None
             \/ /\ d /\ pf = 0
                /\ limit_arg \in BadLimitArgs /\ limit_node_type = None
             \/ /\ d /\ pf = 0 /\ Cardinality(E) <= 1
                /\ limit_arg \in LongLimitArgs /\ limit_node_type = None
             \/ /\ ~d /\ pf = 0
                /\ limit_arg = Unlimited /\ limit_node_type = None
     \/ \E g \in FileGraphs :
          /\ heap = [G |-> g, copy |-> NoGraph]
          /\ \/ limit_arg = Unlimited /\ limit_node_type = None
             \/ limit_arg = <<"1">> /\ limit_node_type = PF
     \/ \E E \in DenseEdgeSets, pf \in {0, 1} :
          /\ heap = [G |-> MkGraph(E, pf, TRUE), copy |-> NoGraph]
          /\ limit_arg = <<"1">> /\ limit_node_type = PF
     \/ /\ heap = [G |-> WideGraph, copy |-> NoGraph]
        /\ limit_arg = <<"2">> /\ limit_node_type = PF

\* --------------------------------------------------- simple_cycles_ig
\* Line 96 with the is_directed() test left out.
GraphOkAnyGraph(g) == TRUE

\* Line 96: isinstance(G, ig.Graph) and G.is_directed().
GraphOk(g) == g.directed

\* Line 111 without the copy: subG is another name of the caller's graph.
CopyRefAlias(ref) == ref

\* Line 111: G.copy() makes a new object; subG refers to it.
CopyRef(ref) == "copy"

\* Line 112: subG.vs['id'] = [v.index for v in subG.vs].
AssignIds(g) ==
  [g EXCEPT !.vs = [k \in 1..Len(g.vs) |->
                      [a \in DOMAIN g.vs[k] \cup {"id"} |->
                         IF a = "id" THEN k - 1 ELSE g.vs[k][a]]]]

\* Lines 96-98: G is not a directed igraph graph.
RaiseNotDirected ==
  /\ pc = "start"
  /\ ~GraphOk(heap["G"])
  /\ pc' = "error"
  /\ UNCHANGED <<heap, inputs, locals, emitted, anchors, harness>>

\* Lines 100-104: int(limit_len) raises.
RaiseBadLimit ==
  /\ pc = "start"
  /\ GraphOk(heap["G"])
  /\ ~IntOk(limit_arg)
  /\ pc' = "error"
  /\ UNCHANGED <<heap, inputs, locals, emitted, anchors, harness>>

\* Lines 96-117: the checks pass, the graph is copied, the components computed.
Setup ==
  /\ pc = "start"
  /\ GraphOk(heap["G"])
  /\ IntOk(limit_arg)
  /\ limit_len' = IntOf(limit_arg)
  /\ subG' = CopyRef("G")
  /\ heap' = [heap EXCEPT ![subG'] = AssignIds(heap["G"])]
  /\ sccs' = strongly_connected_components(heap'[subG'], MIN_SCC_SIZE)
  /\ i' = 0
  /\ pc' = "outer"
  /\ UNCHANGED <<inputs, scc, startnode, path, blocked, closed, B, stack, emitted, anchors, harness>>

\* Line 123 with a pop that takes any vertex of the component, as set.pop()
\* does on keys whose hashes change from one run to the next.
NextAnchorAnyVertex ==
  /\ pc = "outer"
  /\ sccs # <<>>
  /\ i' = i + 1
  /\ sccs' = Front(sccs)
  /\ startnode' \in Last(sccs)
  /\ scc' = Last(sccs) \ {startnode'}
  /\ path' = <<startnode'>>
  /\ closed' = {}
  /\ blocked' = {startnode'}
  /\ B' = EmptyB
  /\ anchors' = Append(anchors, startnode')
  /\ IF HasId(SubG, startnode')
     THEN /\ stack' = <<[node |-> startnode', nbrs |-> get_neighbors(SubG, startnode')]>>
          /\ pc' = "dfs"
     ELSE /\ stack' = <<>>
          /\ pc' = "crash"
  /\ UNCHANGED <<heap, inputs, subG, limit_len, emitted, harness>>

\* Lines 118-130: one more component is popped and its start node set up.
NextAnchor ==
  /\ pc = "outer"
  /\ sccs # <<>>
  /\ i' = i + 1
  /\ sccs' = Front(sccs)
  /\ startnode' = SetPop(Last(sccs))
  /\ scc' = Last(sccs) \ {startnode'}
  /\ path' = <<startnode'>>
  /\ closed' = {}
  /\ blocked' = {startnode'}
  /\ B' = EmptyB
  /\ anchors' = Append(anchors, startnode')
  /\ IF HasId(SubG, startnode')
     THEN /\ stack' = <<[node |-> startnode', nbrs |-> get_neighbors(SubG, startnode')]>>
          /\ pc' = "dfs"
     ELSE /\ stack' = <<>>
          /\ pc' = "crash"
  /\ UNCHANGED <<heap, inputs, subG, limit_len, emitted, harness>>

\* Line 118: the worklist is empty, the generator is exhausted.
Exhausted ==
  /\ pc = "outer"
  /\ sccs = <<>>
  /\ pc' = "done"
  /\ UNCHANGED <<heap, inputs, locals, emitted, anchors, harness>>

Top == Last(stack)

InLimit == is_path_in_limit(SubG, path, limit_len, limit_node_type)

\* Lines 147-154: the frame is done with.
Backtracked(thisnode, closed1) ==
  LET ub == unblock(thisnode, blocked, B)
  IN /\ blocked' = IF thisnode \in closed1 THEN ub.blocked ELSE blocked
     /\ B' = IF thisnode \in closed1 THEN ub.B
             ELSE RegisterB(B, get_neighbors(SubG, thisnode), thisnode)
     /\ stack' = Front(stack)
     /\ path' = Front(path)

\* Lines 145-154, reached when the iteration did not `continue`.
LoopTail(nbrs1, closed1) ==
  IF nbrs1 = <<>> \/ ~InLimit
  THEN Backtracked(Top.node, closed1)
  ELSE /\ stack' = [stack EXCEPT ![Len(stack)].nbrs = nbrs1]
       /\ UNCHANGED <<path, blocked, B>>

\* Lines 132-137: the neighbor popped is the start node, the path is yielded
\* and the generator is suspended at the yield.
Yield ==
  /\ pc = "dfs"
  /\ stack # <<>>
  /\ Top.nbrs # <<>>
  /\ InLimit
  /\ Last(Top.nbrs) = startnode
  /\ stack' = [stack EXCEPT ![Len(stack)].nbrs = Front(Top.nbrs)]
  /\ emitted' = Append(emitted, path)
  /\ pc' = "yielded"
  /\ UNCHANGED <<heap, inputs, subG, limit_len, sccs, i, scc, startnode, path, blocked,
                 closed, B, anchors, harness>>

\* Lines 138 and 145-154: the consumer pulls again, the generator goes on after
\* the yield.
Resume ==
  /\ pc = "yielded"
  /\ closed' = closed \cup SeqToSet(path)
  /\ LoopTail(Top.nbrs, closed \cup SeqToSet(path))
  /\ pc' = "dfs"
  /\ UNCHANGED <<heap, inputs, subG, limit_len, sccs, i, scc, startnode, emitted,
                 anchors, harness>>

\* Lines 132-134 and 139-144: the neighbor popped is not blocked, the search
\* goes down to it.
Extend ==
  /\ pc = "dfs"
  /\ stack # <<>>
  /\ Top.nbrs # <<>>
  /\ InLimit
  /\ LET nextnode == Last(Top.nbrs)
     IN /\ nextnode # startnode
        /\ nextnode \notin blocked
        /\ path' = Append(path, nextnode)
        /\ stack' = Append([stack EXCEPT ![Len(stack)].nbrs = Front(Top.nbrs)],
                           [node |-> nextnode, nbrs |-> get_neighbors(SubG, nextnode)])
        /\ closed' = closed \ {nextnode}
        /\ blocked' = blocked \cup {nextnode}
  /\ UNCHANGED <<heap, inputs, pc, subG, limit_len, sccs, i, scc, startnode, B,
                 emitted, anchors, harness>>

\* Lines 132-135, 139 and 145-154: the neighbor popped is blocked.
Skip ==
  /\ pc = "dfs"
  /\ stack # <<>>
  /\ Top.nbrs # <<>>
  /\ InLimit
  /\ Last(Top.nbrs) # startnode
  /\ Last(Top.nbrs) \in blocked
  /\ LoopTail(Front(Top.nbrs), closed)
  /\ UNCHANGED <<heap, inputs, pc, subG, limit_len, sccs, i, scc, startnode, closed,
                 emitted, anchors, harness>>

\* Lines 132-133 and 145-154: no neighbor is left, or the path is over the limit.
Backtrack ==
  /\ pc = "dfs"
  /\ stack # <<>>
  /\ (Top.nbrs = <<>> \/ ~InLimit)
  /\ Backtracked(Top.node, closed)
  /\ UNCHANGED <<heap, inputs, pc, subG, limit_len, sccs, i, scc, startnode, closed,
                 emitted, anchors, harness>>

\* Lines 162-166 with the else branch left out: the small components stay in
\* the graph.
RECURSIVE ExtendLoopKeepsSmall(_, _, _)
ExtendLoopKeepsSmall(ext, g, worklist) ==
  IF ext = <<>> THEN [g |-> g, sccs |-> worklist, ok |-> TRUE]
  ELSE IF Cardinality(Head(ext)) >= MIN_SCC_SIZE
       THEN ExtendLoopKeepsSmall(Tail(ext), g, Append(worklist, Head(ext)))
       ELSE ExtendLoopKeepsSmall(Tail(ext), g, worklist)

\* Lines 162-166 with line 166 outside the else: every component is deleted
\* from the graph, the large ones after they went to the worklist.
RECURSIVE ExtendLoopDeletesQueued(_, _, _)
ExtendLoopDeletesQueued(ext, g, worklist) ==
  IF ext = <<>> THEN [g |-> g, sccs |-> worklist, ok |-> TRUE]
  ELSE ExtendLoopDeletesQueued(
         Tail(ext),
         delete_vertices(g, {FindIndex(g, id) : id \in Head(ext)}),
         IF Cardinality(Head(ext)) >= MIN_SCC_SIZE THEN Append(worklist, Head(ext))
         ELSE worklist)

\* Lines 162-166: the components of H go to the worklist, or out of the graph.
RECURSIVE ExtendLoop(_, _, _)
ExtendLoop(ext, g, worklist) ==
  IF ext = <<>> THEN [g |-> g, sccs |-> worklist, ok |-> TRUE]
  ELSE LET scc_ext == Head(ext)
       IN IF Cardinality(scc_ext) >= MIN_SCC_SIZE
          THEN ExtendLoop(Tail(ext), g, Append(worklist, scc_ext))
          ELSE IF \A id \in scc_ext : HasId(g, id)
          THEN ExtendLoop(Tail(ext),
                          delete_vertices(g, {FindIndex(g, id) : id \in scc_ext}),
                          worklist)
          ELSE [g |-> g, sccs |-> worklist, ok |-> FALSE]

\* Lines 156-166 with line 156 left out: the start node stays in the graph.
FinalizeResultKeepsStart(g, start, rest, worklist) ==
  IF \E id \in rest : ~HasId(g, id)
  THEN [g |-> g, sccs |-> worklist, ok |-> FALSE]
  ELSE LET H == subgraph(g, {FindIndex(g, id) : id \in rest})
       IN ExtendLoop(strongly_connected_components(H, 1), g, worklist)

\* Lines 156-166.
FinalizeResult(g, start, rest, worklist) ==
  IF ~HasId(g, start) THEN [g |-> g, sccs |-> worklist, ok |-> FALSE]
  ELSE LET g1 == delete_vertices(g, {FindIndex(g, start)})
       IN IF \E id \in rest : ~HasId(g1, id)
          THEN [g |-> g1, sccs |-> worklist, ok |-> FALSE]
          ELSE LET H == subgraph(g1, {FindIndex(g1, id) : id \in rest})
               IN ExtendLoop(strongly_connected_components(H, 1), g1, worklist)

\* Lines 131 and 156-171: the frame stack is empty, the start node is done.
FinalizeAnchor ==
  /\ pc = "dfs"
  /\ stack = <<>>
  /\ LET r == FinalizeResult(SubG, startnode, scc, sccs)
     IN /\ heap' = [heap EXCEPT ![subG] = r.g]
        /\ sccs' = r.sccs
        /\ pc' = IF r.ok THEN "outer" ELSE "crash"
  /\ UNCHANGED <<inputs, subG, limit_len, i, scc, startnode, path, blocked, closed, B,
                 stack, emitted, anchors, harness>>

\* ------------------------------------------------------------ the consumer
\* The graph with every edge given twice: every edge has a parallel copy.
AddParallel(g) == [g EXCEPT !.es = [p \in DOMAIN g.es |-> 2 * g.es[p]]]

\* The same graph with its vertices stored in another order: the vertex that
\* had index a has index f[a], with its attributes and its edges.
Renumber(g, f) ==
  LET inv == [k \in Indices(g) |-> CHOOSE a \in Indices(g) : f[a] = k]
  IN [g EXCEPT !.vs = [k \in 1..Len(g.vs) |-> g.vs[inv[k - 1] + 1]],
               !.es = [p \in DOMAIN g.es |-> g.es[<<inv[p[1]], inv[p[2]]>>]]]

\* The other orders: every one-to-one renumbering that moves a vertex.
Renumberings(g) ==
  {f \in [Indices(g) -> Indices(g)] :
     /\ \A a, b \in Indices(g) : a # b => f[a] # f[b]
     /\ \E a \in Indices(g) : f[a] # a}

\* The vertices numbered backwards.
Backwards(g) == [k \in Indices(g) |-> VCount(g) - 1 - k]

\* The orders the consumer tries: all of them on a graph of MaxRenumbered
\* vertices or fewer, the backward one on a larger graph.
RenumberingsTried(g) ==
  IF VCount(g) <= MaxRenumbered THEN Renumberings(g) ELSE {Backwards(g)}

\* The consumer stops pulling after a cycle: the suspended generator is dropped
\* and runs no further statement.
Abandon ==
  /\ pc = "yielded"
  /\ pc' = "abandoned"
  /\ UNCHANGED <<heap, inputs, locals, emitted, anchors, harness>>

\* The consumer has drained the generator and calls simple_cycles_ig again with
\* the same arguments: on G as it is, on G with its vertices numbered in
\* another order or, in an unlimited search, on G with a parallel copy of every
\* edge.
SecondCall ==
  /\ pc = "done"
  /\ run = 1
  /\ run' = 2
  /\ firstRun' = emitted
  /\ \/ /\ variant' = "same"
        /\ heap' = heap
        /\ perm' = perm
     \/ /\ limit_arg = Unlimited
        /\ variant' = "parallel"
        /\ heap' = [heap EXCEPT !["G"] = AddParallel(@)]
        /\ perm' = perm
     \/ /\ variant' = "renumbered"
        /\ perm' \in RenumberingsTried(heap["G"])
        /\ heap' = [heap EXCEPT !["G"] = Renumber(@, perm')]
  /\ pc' = "start"
  /\ subG' = "none"
  /\ limit_len' = -1
  /\ sccs' = <<>>
  /\ i' = 0
  /\ scc' = {}
  /\ startnode' = -1
  /\ path' = <<>>
  /\ blocked' = {}
  /\ closed' = {}
  /\ B' = EmptyB
  /\ stack' = <<>>
  /\ emitted' = <<>>
  /\ anchors' = <<>>
  /\ UNCHANGED inputs

\* The steps of a consumer that keeps pulling.
Pull ==
  \/ RaiseNotDirected
  \/ RaiseBadLimit
  \/ Setup
  \/ NextAnchor
  \/ Exhausted
  \/ Yield
  \/ Resume
  \/ Extend
  \/ Skip
  \/ Backtrack
  \/ FinalizeAnchor
  \/ SecondCall

Next ==
  \/ Pull
  \/ Abandon

Spec == Init /\ [][Next]_vars

\* The consumer keeps pulling: the generator runs on whenever it has a step to
\* take. The first statements of the call, the start and the end of an outer
\* iteration and the resumption after a yield always take their step, so
\* their fairness is stated on the step out of their guard, which changes pc;
\* a Backtrack or Skip step is stated by its guard and what it does to the
\* frame stack.
StartStep == pc = "start" /\ pc' \in {"outer", "error"}

FinalizeStep == pc = "dfs" /\ stack = <<>> /\ pc' \in {"outer", "crash"}

NextAnchorStep == pc = "outer" /\ sccs # <<>> /\ pc' \in {"dfs", "crash"}

ResumeStep == pc = "yielded" /\ pc' = "dfs"

BacktrackStep ==
  /\ pc = "dfs"
  /\ stack # <<>>
  /\ (Top.nbrs = <<>> \/ ~InLimit)
  /\ stack' = Front(stack)

SkipStep ==
  /\ pc = "dfs"
  /\ stack # <<>>
  /\ Top.nbrs # <<>>
  /\ InLimit
  /\ Last(Top.nbrs) # startnode
  /\ Last(Top.nbrs) \in blocked
  /\ stack' \in {Front(stack), [stack EXCEPT ![Len(stack)].nbrs = Front(Top.nbrs)]}

FairSpec ==
  /\ Init /\ [][Pull]_vars
  /\ WF_pc(StartStep)
  /\ WF_pc(FinalizeStep)
  /\ WF_pc(NextAnchorStep)
  /\ WF_pc(ResumeStep)
  /\ WF_stack(BacktrackStep)
  /\ WF_stack(SkipStep)
  /\ WF_vars(Exhausted)
  /\ WF_vars(Yield)
  /\ WF_vars(Extend)

\* ---------------------------------------------------------------- oracle
\* The elementary cycles of a graph by brute force: every sequence of pairwise
\* distinct vertices whose consecutive pairs, and last and first, are edges.
IsElementaryCycle(g, c) ==
  /\ \A j, k \in 1..Len(c) : j # k => c[j] # c[k]
  /\ \A k \in 1..Len(c) : g.es[<<c[k], c[(k % Len(c)) + 1]>>] > 0

ElementaryCycles(g) ==
  {c \in UNION {[1..n -> Indices(g)] : n \in 1..VCount(g)} : IsElementaryCycle(g, c)}

IsRotation(a, b) ==
  /\ Len(a) = Len(b)
  /\ \E r \in 0..(Len(a) - 1) : \A k \in 1..Len(a) : a[k] = b[((k - 1 + r) % Len(a)) + 1]

IsEmitted(c) == \E k \in 1..Len(emitted) : IsRotation(emitted[k], c)

\* The number of vertices of a cycle whose 'tipo' in G is t.
TypedVertices(c, t) == Cardinality({k \in 1..Len(c) : heap["G"].vs[c[k] + 1].tipo = t})

\* ---------------------------------------------------------------- claims
Exhaustion == pc = "done"

\* C1: when an unlimited search (limit_len < 0) has run to exhaustion, every
\* elementary cycle of G with two or more vertices has been emitted, up to
\* rotation.
C1_UnlimitedEmitsEveryCycle ==
  (Exhaustion /\ limit_len < 0) =>
    \A c \in ElementaryCycles(heap["G"]) : Len(c) >= 2 => IsEmitted(c)

\* C1 witness: an unlimited search is exhausted on a graph that has a cycle of
\* three vertices and a cycle of two, and has emitted two cycles or more.
C1_Witness ==
  /\ Exhaustion /\ limit_len < 0 /\ run = 1
  /\ \E c \in ElementaryCycles(heap["G"]) : Len(c) = 3
  /\ \E c \in ElementaryCycles(heap["G"]) : Len(c) = 2
  /\ Len(emitted) >= 2

\* C2: no two lists emitted in one run are equal up to rotation.
C2_NoCycleEmittedTwice ==
  \A j, k \in 1..Len(emitted) : j < k => ~IsRotation(emitted[j], emitted[k])

\* C3: when a search with limit_len = L >= 0 and no node type has run to
\* exhaustion, every elementary cycle of G with 2..L vertices has been emitted.
C3_LengthLimitedEmitsEveryShortCycle ==
  (Exhaustion /\ limit_len >= 0 /\ limit_node_type = None) =>
    \A c \in ElementaryCycles(heap["G"]) :
      (Len(c) >= 2 /\ Len(c) <= limit_len) => IsEmitted(c)

\* C4: with limit_len = L >= 0 and no node type every emitted cycle has at most
\* L vertices, and so with L = 0 or L = 1 nothing is emitted.
C4_LengthLimitBoundsEveryCycle ==
  (limit_len >= 0 /\ limit_node_type = None) =>
    /\ \A k \in 1..Len(emitted) : Len(emitted[k]) <= limit_len
    /\ (limit_len <= 1 => emitted = <<>>)

\* C5: with limit_len = L >= 0 and limit_node_type = T every emitted cycle has
\* at most L vertices whose 'tipo' is T.
C5_TypeLimitBoundsTypedVertices ==
  (limit_len >= 0 /\ limit_node_type # None) =>
    \A k \in 1..Len(emitted) : TypedVertices(emitted[k], limit_node_type) <= limit_len

\* C5 witness: under a type limit a cycle was emitted that has more than L
\* vertices in all, and L or fewer of the limiting type.
C5_Witness ==
  /\ limit_len >= 0 /\ limit_node_type # None
  /\ \E k \in 1..Len(emitted) :
       /\ Len(emitted[k]) > limit_len
       /\ TypedVertices(emitted[k], limit_node_type) = limit_len
       /\ limit_len >= 1

\* C6: every emitted list has at least two vertices.
C6_NoCycleOfLengthOne == \A k \in 1..Len(emitted) : Len(emitted[k]) >= 2

\* C7: a run on G with parallel copies of its edges added emits the same
\* sequence of cycles as the run on G.
C7_ParallelEdgesChangeNothing ==
  (Exhaustion /\ run = 2 /\ variant = "parallel") => emitted = firstRun

\* the call stands at its start or in the error, and nothing has been done:
\* no copy, no component, no iteration, no deletion, no cycle.
C9_InvalidArgumentsRaiseFirst ==
  (~heap["G"].directed \/ ~IntOk(limit_arg)) =>
    /\ pc \in {"start", "error"}
    /\ subG = "none"
    /\ heap["copy"] = NoGraph
    /\ VCount(heap["G"]) = MaxV
    /\ sccs = <<>>
    /\ i = 0
    /\ emitted = <<>>

\* C9 witness: the call has ended in the error on a limit that is no integer,
\* for a graph that has a cycle to find.
C9_Witness ==
  /\ pc = "error"
  /\ ~IntOk(limit_arg)
  /\ \E c \in ElementaryCycles(heap["G"]) : Len(c) >= 2

\* the generator is suspended at its yield, is the path and starts at the
\* start node of the current iteration.
C11_EmittedIsElementaryCycleOfInput ==
  /\ \A k \in 1..Len(emitted) : IsElementaryCycle(heap["G"], emitted[k])
  /\ pc = "yielded" =>
       /\ Last(emitted) = path
       /\ path[1] = startnode
       /\ startnode = Last(anchors)

\* The start nodes whose iteration has completed.
CompletedAnchors ==
  IF pc \in {"dfs", "yielded", "abandoned", "crash"} THEN Front(anchors) ELSE anchors

\* C12: a start node whose iteration has completed is absent from the working
\* graph from then on, and a list yielded afterwards contains none of them: it
\* starts at the current start node, the first of its vertices to be one.
C12_CompletedAnchorIsGoneForGood ==
  /\ \A s \in SeqToSet(CompletedAnchors) : ~HasId(SubG, s)
  /\ pc = "yielded" =>
       /\ \A v \in SeqToSet(path) : v \notin SeqToSet(CompletedAnchors)
       /\ path[1] = Last(anchors)

\* C12 witness: a cycle is yielded in the second iteration, after the first
\* start node had cycles of its own emitted.
C12_Witness ==
  /\ pc = "yielded" /\ Len(anchors) = 2 /\ Len(emitted) >= 2
  /\ emitted[1][1] = anchors[1]
  /\ \E v \in SeqToSet(emitted[1]) : v = anchors[2]

\* C13: during the search for a start node every vertex on path and on the
\* frame stack belongs to the component popped from the worklist for it.
C13_SearchStaysInComponent ==
  pc \in {"dfs", "yielded"} =>
    /\ \A v \in SeqToSet(path) : v \in scc \cup {startnode}
    /\ \A k \in 1..Len(stack) : stack[k].node \in scc \cup {startnode}

\* The working graph seen through the 'id' attribute: the identities present,
\* the edges between them, the vertices a set reaches inside R, the strongly
\* connected component of v in the subgraph induced on R, and whether v lies
\* on an elementary cycle of minlen vertices or more that stays inside R.
PresentIds(g) == {g.vs[k].id : k \in 1..VCount(g)}

HasEdge(g, a, b) == g.es[<<FindIndex(g, a), FindIndex(g, b)>>] > 0

RECURSIVE ReachFrom(_, _, _)
ReachFrom(g, R, S) ==
  LET more == {w \in R \ S : \E v \in S : HasEdge(g, v, w)}
  IN IF more = {} THEN S ELSE ReachFrom(g, R, S \cup more)

SccIn(g, R, v) == {w \in R : w \in ReachFrom(g, R, {v}) /\ v \in ReachFrom(g, R, {w})}

OnCycleIn(g, R, v, minlen) ==
  \E n \in minlen..Cardinality(R) : \E c \in [1..n -> R] :
    /\ \E k \in 1..n : c[k] = v
    /\ \A j, k \in 1..n : j # k => c[j] # c[k]
    /\ \A k \in 1..n : HasEdge(g, c[k], c[(k % n) + 1])

\* What finalizing the start node does, for cycles of minlen vertices or more:
\* the start node is gone; every component of two vertices or more of the
\* subgraph induced on the rest of the processed component is appended to the
\* worklist, its vertices all still present; every vertex of a smaller
\* component is gone, and lay on no such cycle of the graph that remained
\* once the start node was deleted.
FinalizeEffect(minlen) ==
  LET g == heap[subG]
      after == heap'[subG]
      remaining == PresentIds(g) \ {startnode}
      big == {SccIn(g, scc, v) : v \in {w \in scc : Cardinality(SccIn(g, scc, w)) >= 2}}
  IN /\ pc' = "outer"
     /\ ~HasId(after, startnode)
     /\ Len(sccs') = Len(sccs) + Cardinality(big)
     /\ SubSeq(sccs', 1, Len(sccs)) = sccs
     /\ {sccs'[k] : k \in (Len(sccs) + 1)..Len(sccs')} = big
     /\ \A c \in big : \A v \in c : HasId(after, v)
     /\ \A v \in scc : Cardinality(SccIn(g, scc, v)) < 2 =>
          /\ ~HasId(after, v)
          /\ ~OnCycleIn(g, remaining, v, minlen)
     /\ PresentIds(after) = remaining \ {v \in scc : Cardinality(SccIn(g, scc, v)) < 2}

\* C14: finalizing a start node removes it, queues the sub-components of two
\* vertices or more with their vertices kept, and deletes the vertices of the
\* smaller ones, none of which lies on an elementary cycle of the remaining
\* graph.
C14_FinalizeQueuesOrDeletes == [][FinalizeAnchor => FinalizeEffect(1)]_vars

\* C14 as amended: the same, the deleted vertices lying on no elementary cycle
\* of two vertices or more of the remaining graph.
C14_FinalizeQueuesOrDeletesNoLongCycle == [][FinalizeAnchor => FinalizeEffect(2)]_vars

\* C14 witness: the first start node was finalized and a sub-component went to
\* the worklist; its start node has been finalized in turn, and the vertex
\* left of it, a one-vertex component, was deleted.
C14_Witness ==
  /\ pc = "outer" /\ i = 2
  /\ Len(emitted) >= 2
  /\ anchors[1] \in SeqToSet(emitted[1]) /\ anchors[2] \in SeqToSet(emitted[1])
  /\ scc # {}
  /\ \A v \in scc \cup SeqToSet(anchors) : ~HasId(SubG, v)

\* C15: whenever the outer loop is at its head the components in the worklist
\* are pairwise disjoint, have two vertices or more each, and all their
\* vertices are in the working graph; and no lookup by 'id' fails: the run
\* never stops on one, and the start node, the rest of its component, the
\* vertices of path and of the frames and their pending neighbors are all in
\* the working graph while they are searched.
C15_WorklistAndLookupsAreSound ==
  /\ pc # "crash"
  /\ pc = "outer" =>
       /\ \A j, k \in 1..Len(sccs) : j # k => sccs[j] \cap sccs[k] = {}
       /\ \A k \in 1..Len(sccs) :
            /\ Cardinality(sccs[k]) >= MIN_SCC_SIZE
            /\ \A v \in sccs[k] : HasId(SubG, v)
  /\ pc \in {"dfs", "yielded"} =>
       /\ HasId(SubG, startnode)
       /\ \A v \in scc \cup SeqToSet(path) : HasId(SubG, v)
       /\ \A k \in 1..Len(stack) :
            /\ HasId(SubG, stack[k].node)
            /\ \A n \in 1..Len(stack[k].nbrs) : HasId(SubG, stack[k].nbrs[n])

\* C15 witness: the outer loop is at its head for the second time; the first
\* start node was finalized and what was left of its component deleted, and
\* another component of the input still waits in the worklist.
C15_Witness ==
  /\ pc = "outer" /\ i = 1 /\ Len(sccs) = 1
  /\ sccs[1] \cap (scc \cup {startnode}) = {}
  /\ \A v \in scc \cup {startnode} : ~HasId(SubG, v)

\* The search state at a head of the inner loop (line 131).
SearchStateAtLoopHead ==
  /\ Len(path) = Len(stack)
  /\ \A k \in 1..Len(path) : path[k] = stack[k].node
  /\ path # <<>> => path[1] = startnode
  /\ \A j, k \in 1..Len(path) : j # k => path[j] # path[k]
  /\ \A v \in SeqToSet(path) : v \in blocked

\* The search state an iteration starts with (lines 125-130).
SearchStateAtIterationStart ==
  /\ path' = <<startnode'>>
  /\ blocked' = {startnode'}
  /\ closed' = {}
  /\ \A n \in DOMAIN B' : Keys(B'[n]) = {}
  /\ Len(stack') = 1 /\ stack'[1].node = startnode'

\* C16: every iteration starts with path = [s], blocked = {s}, B and closed
\* empty, whatever the earlier iterations left; at every head of the inner
\* loop path and the frame stack have the same length, path[k] is the vertex
\* of frame k, path[0] is the start node, the vertices of path are pairwise
\* distinct and all of them are blocked.
C16_SearchStateInvariant ==
  /\ [](pc = "dfs" => SearchStateAtLoopHead)
  /\ [][(pc = "outer" /\ pc' = "dfs") => SearchStateAtIterationStart]_vars

\* The strongly connected component of vertex v in the input graph G: the
\* vertices that reach v and that v reaches.
RECURSIVE InputReach(_)
InputReach(S) ==
  LET more == {w \in Indices(heap["G"]) \ S : \E v \in S : heap["G"].es[<<v, w>>] > 0}
  IN IF more = {} THEN S ELSE InputReach(S \cup more)

InputScc(v) == {w \in InputReach({v}) : v \in InputReach({w})}

\* C17: no start node has a one-vertex component in the input graph, and when
\* every component of the input graph is a single vertex (self-loops or not)
\* no iteration is run and nothing is emitted.
C17_SingletonComponentsAreNeverSearched ==
  /\ \A s \in SeqToSet(anchors) : Cardinality(InputScc(s)) >= 2
  /\ (\A v \in Indices(heap["G"]) : InputScc(v) = {v}) =>
       /\ i = 0 /\ anchors = <<>> /\ emitted = <<>>
       /\ pc \in {"start", "error", "outer", "done"}

\* C17 witness: a run is exhausted on a directed graph all of whose components
\* are single vertices, with a self-loop and an edge between two vertices.
C17_Witness ==
  /\ Exhaustion
  /\ \A v \in Indices(heap["G"]) : InputScc(v) = {v}
  /\ \E v \in Indices(heap["G"]) : heap["G"].es[<<v, v>>] > 0
  /\ \E v, w \in Indices(heap["G"]) : v # w /\ heap["G"].es[<<v, w>>] > 0

\* C18: no step of a call of simple_cycles_ig changes the caller's graph G:
\* its vertices, edges and attributes are the same before the call, at every
\* yield, after exhaustion and after the consumer has abandoned the generator
\* (the only steps that change G are the consumer's own, between two calls).
C18_CallerGraphIsNeverModified == [][run' = run => heap'["G"] = heap["G"]]_vars

\* C18 witness: the consumer has abandoned the generator in a second
\* iteration, after vertices were deleted from the working copy, and G still
\* has all its vertices and no 'id' attribute.
C18_Witness ==
  /\ pc = "abandoned" /\ i >= 2
  /\ VCount(SubG) < VCount(heap["G"])
  /\ VCount(heap["G"]) = MaxV
  /\ \A k \in 1..MaxV : DOMAIN heap["G"].vs[k] = {"tipo"}

\* A cycle of the second call in the vertex numbering of the first.
InFirstNumbering(c) == [k \in 1..Len(c) |-> CHOOSE a \in DOMAIN perm : perm[a] = c[k]]

\* C19: the set of cycles of a complete run, up to rotation, is the same
\* whichever component is popped first, whichever vertex is the start node and
\* in whichever order the neighbors are taken: a run on the same graph with
\* its vertices numbered in another order, which changes all three, emits the
\* same cycles.
C19_ChoicesDoNotChangeTheCycleSet ==
  (Exhaustion /\ run = 2 /\ variant = "renumbered") =>
    /\ \A j \in 1..Len(firstRun) : \E k \in 1..Len(emitted) :
         IsRotation(firstRun[j], InFirstNumbering(emitted[k]))
    /\ \A k \in 1..Len(emitted) : \E j \in 1..Len(firstRun) :
         IsRotation(firstRun[j], InFirstNumbering(emitted[k]))

====
